---- MODULE Spec2Model ----
(***************************************************************************)
(* Model of anomaly_model.py: the AnomalyDetector track table and its two  *)
(* rules (loitering, abandoned object), driven by step(detections, now_s). *)
(*                                                                         *)
(* Encodings.  Times are whole time-units.  Box coordinates are whole      *)
(* pixels.  center_of divides by 2.0, so centres are kept in half-pixels   *)
(* (twice the Python value); distances are compared squared, in half-pixel *)
(* units.  A confidence is kept in hundredths.  An IoU value is kept as    *)
(* the pair [inter, uni] that stands for inter / (uni + 1e-6).             *)
(***************************************************************************)
EXTENDS Integers, Sequences, FiniteSets

VARIABLES
    tracks,     \* self.tracks: id -> Track, insertion order = ascending id
    next_id,    \* self.next_id
    now,        \* now_s of the latest step call (0 before the first call)
    alerts,     \* list returned by the latest step call
    started,    \* some step call has been made
    assigned,   \* history: every id ever given to a track
    fired,      \* history: every track_id that ever appeared in an alert
    refired,    \* history: some track_id appeared in a second alert
    scenB,      \* history: calls so far are Scenario B (same person box, t = 0,1,2,...)
    max_age,    \* MAX_TRACK_AGE_S in effect (a class attribute, "you can tweak")
    pre,        \* recorded call: self.tracks when the call began
    dets,       \* recorded call: its detections
    assoc,      \* recorded call: self.tracks when _associate returned
    matched,    \* recorded call: track id -> index of the detection it consumed
    argA,       \* iou evaluation: first argument
    argB,       \* iou evaluation: second argument
    result      \* iou evaluation: the value returned (<<>> before the call)

engine == <<tracks, next_id, now, alerts, started, assigned, fired, refired, scenB>>
recorded == <<pre, dets, assoc, matched>>
geometry == <<argA, argB, result>>
vars == <<engine, max_age, recorded, geometry>>

----------------------------------------------------------------------------
(* Program constants (class attributes of AnomalyDetector) *)

MATCH_IOU_THR_NUM == 3
MATCH_IOU_THR_DEN == 10
LOITER_TIME_S == 30
LOITER_RADIUS_PX == 40
ABANDON_TIME_S == 20
NEAR_PERSON_DIST_PX == 80
MAX_TRACK_AGE_S == 5
PRESENT_AGE_S == 1
FIRST_ID == 1
PER_EPS == 1000000     \* 1 / 1e-6, the epsilon of iou's denominator
ABSORB_ROOT == 131072  \* 2^17: from uni = 2^34 on, float(uni + 1e-6) = uni

PERSON_LABELS == {"person"}
OBJECT_LABELS == {"handbag", "backpack", "suitcase"}

(* Bounds of the model *)

MaxTime == 35      \* latest timestamp of a call under Spec
MaxTimeB == 32     \* latest timestamp of a call under SpecB
MaxId == 2         \* calls that would hand out an id above MaxId are left out
MaxTimeA == 6      \* latest timestamp of a call under SpecA
MaxCoord == 2      \* largest box coordinate under SpecI
MaxArea == 1000    \* calls with a box of larger area (width * height) are left out

(* Inputs: boxes, detections, frames (detection lists) and timestamp gaps *)

BoxO == <<-50, -5, 50, 5>>      \* centred on the origin
BoxR == <<0, -5, 100, 5>>       \* IoU 1/3 with BoxO, centre 50 px to its right
BoxF == <<50, -5, 150, 5>>      \* centre 50 px from BoxR's, 100 px from BoxO's

pO == <<"person", 90, BoxO>>
pR == <<"person", 50, BoxR>>
hO == <<"handbag", 80, BoxO>>
hF == <<"handbag", 40, BoxF>>

DetLists ==
    { <<>>, <<pO>>, <<pR>>, <<hF>>,
      <<hO, pR>>, <<pO, pR>>, <<hF, pR>>, <<pO, pO>> }

Gaps == {0, 5, 10}

DetListsB == { <<>>, <<pR>>, <<pO>> }

\* detections and frames of the recorded calls (SpecA)
BoxS == <<0, 0, 10, 10>>         \* the box of Scenario A
BoxX == <<100, 5, 0, -5>>        \* malformed: x1 > x2 and y1 > y2 (BoxR, corners swapped)
BoxZ == <<50, -5, 50, 5>>        \* malformed: x1 = x2 (zero width)
pS == <<"person", 90, BoxS>>
pF == <<"person", 60, BoxF>>
pX == <<"person", 10, BoxX>>
pZ == <<"person", 20, BoxZ>>

DetListsA ==
    { <<>>, <<pS>>, <<pO>>, <<pR>>, <<pX>>, <<pZ>>, <<hO>>,
      <<pO, pR>>, <<pR, pF>>, <<pO, pO>>, <<pF, pO>>, <<pX, pR>> }

GapsA == {0, 6}

----------------------------------------------------------------------------
(* Simple utilities *)

Max(a, b) == IF a >= b THEN a ELSE b
Min(a, b) == IF a <= b THEN a ELSE b

\* mutant: the union is taken as areaA + areaB (the intersection counted twice)
iouUnionSum(boxA, boxB) ==
    LET xA == Max(boxA[1], boxB[1])
        yA == Max(boxA[2], boxB[2])
        xB == Min(boxA[3], boxB[3])
        yB == Min(boxA[4], boxB[4])
        inter == Max(0, xB - xA) * Max(0, yB - yA)
        areaA == (boxA[3] - boxA[1]) * (boxA[4] - boxA[2])
        areaB == (boxB[3] - boxB[1]) * (boxB[4] - boxB[2])
    IN  IF inter <= 0 THEN [inter |-> 0, uni |-> 0]
        ELSE [inter |-> inter, uni |-> areaA + areaB]

\* mutant: the overlap extents are not clamped at 0
iouNoClamp(boxA, boxB) ==
    LET xA == Max(boxA[1], boxB[1])
        yA == Max(boxA[2], boxB[2])
        xB == Min(boxA[3], boxB[3])
        yB == Min(boxA[4], boxB[4])
        inter == (xB - xA) * (yB - yA)
        areaA == (boxA[3] - boxA[1]) * (boxA[4] - boxA[2])
        areaB == (boxB[3] - boxB[1]) * (boxB[4] - boxB[2])
    IN  IF inter <= 0 THEN [inter |-> 0, uni |-> 0]
        ELSE [inter |-> inter, uni |-> areaA + areaB - inter]

\* iou(boxA, boxB): [inter, uni] stands for inter / (uni + 1e-6); 0.0 is [0, 0]
iou(boxA, boxB) ==
    LET xA == Max(boxA[1], boxB[1])
        yA == Max(boxA[2], boxB[2])
        xB == Min(boxA[3], boxB[3])
        yB == Min(boxA[4], boxB[4])
        inter == Max(0, xB - xA) * Max(0, yB - yA)
        areaA == (boxA[3] - boxA[1]) * (boxA[4] - boxA[2])
        areaB == (boxB[3] - boxB[1]) * (boxB[4] - boxB[2])
    IN  IF inter <= 0 THEN [inter |-> 0, uni |-> 0]
        ELSE [inter |-> inter, uni |-> areaA + areaB - inter]

\* The comparisons below are those of the float quotients for the boxes the
\* model feeds to iou (whole pixels, area at most MaxArea, see InRange):
\* there the quotients of two distinct [inter, uni] are distinct floats in
\* the order of the exact values.

\* a > b for IoU values: a.inter/(a.uni+e) > b.inter/(b.uni+e) with e = 1e-6,
\* i.e. d + e*(a.inter - b.inter) > 0 for d = a.inter*b.uni - b.inter*a.uni,
\* i.e. d*PER_EPS + (a.inter - b.inter) > 0; with a.inter - b.inter written
\* as q*PER_EPS + r, 0 <= r < PER_EPS, that is (d + q)*PER_EPS + r > 0
ScoreGreater(a, b) ==
    LET d == a.inter * b.uni - b.inter * a.uni
        q == (a.inter - b.inter) \div PER_EPS
        r == (a.inter - b.inter) % PER_EPS
    IN  d + q > 0 \/ (d + q = 0 /\ r > 0)

\* a = 1.0 for an IoU value of whole-pixel boxes: float(uni + 1e-6) is above
\* uni while uni < 2^34 and is uni itself from 2^34 on, so the quotient is
\* the float 1.0 exactly when inter = uni >= 2^34 = ABSORB_ROOT^2
ScoreIsOne(a) ==
    /\ a.inter > 0
    /\ a.inter = a.uni
    /\ a.uni \div ABSORB_ROOT >= ABSORB_ROOT

\* a < 1.0 for an IoU value (inter <= uni): every value that is not 1.0
ScoreBelowOne(a) ==
    \/ a.inter = 0
    \/ a.inter < a.uni
    \/ a.uni \div ABSORB_ROOT < ABSORB_ROOT

\* a >= MATCH_IOU_THR: inter/(uni+e) >= 3/10 iff 10*inter >= 3*uni + 3e
ScoreAtLeastThr(a) ==
    MATCH_IOU_THR_DEN * a.inter > MATCH_IOU_THR_NUM * a.uni

\* center_of(box), in half-pixels
center_of(box) == <<box[1] + box[3], box[2] + box[4]>>

\* euclid(a, b) squared, in half-pixels
euclid2(a, b) == (a[1] - b[1]) * (a[1] - b[1]) + (a[2] - b[2]) * (a[2] - b[2])

\* euclid(a, b) <= r for a radius r in pixels
Within(a, b, r) == euclid2(a, b) <= (2 * r) * (2 * r)

SENTINEL == <<0, 0>>

----------------------------------------------------------------------------
(* Track entities *)

Track(id, cls, box, conf, first_time, last_time, first_center) ==
    [id |-> id, cls |-> cls, box |-> box, conf |-> conf,
     first_time |-> first_time, last_time |-> last_time,
     first_center |-> first_center, alerted |-> FALSE]

TrackUpdate(tr, box, conf, t) ==
    [tr EXCEPT !.box = box, !.conf = conf, !.last_time = t]

MinOf(S) == CHOOSE x \in S : \A y \in S : x <= y

----------------------------------------------------------------------------
(* _associate *)

\* mutant: the inner loop without the test "if label != tr.cls: continue"
RECURSIVE BestScanAnyClass(_, _, _, _, _, _)
BestScanAnyClass(tr, ds, unmatched, j, best_j, best_score) ==
    IF j > Len(ds) THEN [best_j |-> best_j, best_score |-> best_score]
    ELSE IF j \notin unmatched
         THEN BestScanAnyClass(tr, ds, unmatched, j + 1, best_j, best_score)
    ELSE LET score == iou(tr.box, ds[j][3])
         IN  IF ScoreGreater(score, best_score)
             THEN BestScanAnyClass(tr, ds, unmatched, j + 1, j, score)
             ELSE BestScanAnyClass(tr, ds, unmatched, j + 1, best_j, best_score)

\* inner loop "for j in unmatched": indices ascending, 0 means best_j = -1
RECURSIVE BestScan(_, _, _, _, _, _)
BestScan(tr, ds, unmatched, j, best_j, best_score) ==
    IF j > Len(ds) THEN [best_j |-> best_j, best_score |-> best_score]
    ELSE IF j \notin unmatched \/ ds[j][1] # tr.cls
         THEN BestScan(tr, ds, unmatched, j + 1, best_j, best_score)
    ELSE LET score == iou(tr.box, ds[j][3])
         IN  IF ScoreGreater(score, best_score)
             THEN BestScan(tr, ds, unmatched, j + 1, j, score)
             ELSE BestScan(tr, ds, unmatched, j + 1, best_j, best_score)

\* mutant: the best detection is taken without the test
\* "best_score >= MATCH_IOU_THR"
MatchOneNoThreshold(tr, ds, unmatched, t) ==
    LET best == BestScan(tr, ds, unmatched, 1, 0, [inter |-> 0, uni |-> 0])
    IN  IF best.best_j # 0
        THEN LET box == ds[best.best_j][3]
                 conf == ds[best.best_j][2]
                 up == TrackUpdate(tr, box, conf, t)
             IN  [track |-> IF up.first_center = SENTINEL
                            THEN [up EXCEPT !.first_center = center_of(box)]
                            ELSE up,
                  unmatched |-> unmatched \ {best.best_j}]
        ELSE [track |-> tr, unmatched |-> unmatched]

\* mutant: the matched index is not discarded from unmatched
MatchOneKeepsIndex(tr, ds, unmatched, t) ==
    LET best == BestScan(tr, ds, unmatched, 1, 0, [inter |-> 0, uni |-> 0])
    IN  IF best.best_j # 0 /\ ScoreAtLeastThr(best.best_score)
        THEN LET box == ds[best.best_j][3]
                 conf == ds[best.best_j][2]
                 up == TrackUpdate(tr, box, conf, t)
             IN  [track |-> IF up.first_center = SENTINEL
                            THEN [up EXCEPT !.first_center = center_of(box)]
                            ELSE up,
                  unmatched |-> unmatched]
        ELSE [track |-> tr, unmatched |-> unmatched]

\* body of "for tid, tr in list(self.tracks.items())" for one track
MatchOne(tr, ds, unmatched, t) ==
    LET best == BestScan(tr, ds, unmatched, 1, 0, [inter |-> 0, uni |-> 0])
    IN  IF best.best_j # 0 /\ ScoreAtLeastThr(best.best_score)
        THEN LET box == ds[best.best_j][3]
                 conf == ds[best.best_j][2]
                 up == TrackUpdate(tr, box, conf, t)
             IN  [track |-> IF up.first_center = SENTINEL
                            THEN [up EXCEPT !.first_center = center_of(box)]
                            ELSE up,
                  unmatched |-> unmatched \ {best.best_j}]
        ELSE [track |-> tr, unmatched |-> unmatched]

\* mutant: the loop over the existing tracks runs in descending id order
RECURSIVE MatchTracksDescending(_, _, _, _, _)
MatchTracksDescending(trs, todo, ds, unmatched, t) ==
    IF todo = {} THEN [tracks |-> trs, unmatched |-> unmatched]
    ELSE LET tid == CHOOSE x \in todo : \A y \in todo : x >= y
             m == MatchOne(trs[tid], ds, unmatched, t)
         IN  MatchTracksDescending([trs EXCEPT ![tid] = m.track], todo \ {tid},
                                   ds, m.unmatched, t)

\* the loop over the existing tracks, in ascending id order
RECURSIVE MatchTracks(_, _, _, _, _)
MatchTracks(trs, todo, ds, unmatched, t) ==
    IF todo = {} THEN [tracks |-> trs, unmatched |-> unmatched]
    ELSE LET tid == MinOf(todo)
             m == MatchOne(trs[tid], ds, unmatched, t)
         IN  MatchTracks([trs EXCEPT ![tid] = m.track], todo \ {tid},
                         ds, m.unmatched, t)

\* mutant: the new track is built without first_center=c (the dataclass
\* default stays in place)
RECURSIVE CreateTracksNoCenter(_, _, _, _, _)
CreateTracksNoCenter(trs, nid, ds, unmatched, t) ==
    IF unmatched = {} THEN [tracks |-> trs, next_id |-> nid]
    ELSE LET j == MinOf(unmatched)
             d == ds[j]
             new == Track(nid, d[1], d[3], d[2], t, t, SENTINEL)
             grown == [i \in DOMAIN trs \cup {nid} |->
                          IF i = nid THEN new ELSE trs[i]]
         IN  CreateTracksNoCenter(grown, nid + 1, ds, unmatched \ {j}, t)

\* "create tracks for the rest", detection indices ascending
RECURSIVE CreateTracks(_, _, _, _, _)
CreateTracks(trs, nid, ds, unmatched, t) ==
    IF unmatched = {} THEN [tracks |-> trs, next_id |-> nid]
    ELSE LET j == MinOf(unmatched)
             d == ds[j]
             new == Track(nid, d[1], d[3], d[2], t, t, center_of(d[3]))
             grown == [i \in DOMAIN trs \cup {nid} |->
                          IF i = nid THEN new ELSE trs[i]]
         IN  CreateTracks(grown, nid + 1, ds, unmatched \ {j}, t)

\* mutant: the new id is taken from the table size, not from next_id
AssociateIdFromSize(trs, nid, ds, t) ==
    LET m == MatchTracks(trs, DOMAIN trs, ds, 1..Len(ds), t)
    IN  CreateTracks(m.tracks, Cardinality(DOMAIN trs) + 1, ds, m.unmatched, t)

Associate(trs, nid, ds, t) ==
    LET m == MatchTracks(trs, DOMAIN trs, ds, 1..Len(ds), t)
    IN  CreateTracks(m.tracks, nid, ds, m.unmatched, t)

----------------------------------------------------------------------------
(* _purge_stale *)

\* mutant: a track aged exactly MAX_TRACK_AGE_S is dropped too
PurgeStaleAtAge(trs, t) ==
    LET keep == { tid \in DOMAIN trs : ~((t - trs[tid].last_time) >= max_age) }
    IN  [tid \in keep |-> trs[tid]]

PurgeStale(trs, t) ==
    LET keep == { tid \in DOMAIN trs : ~((t - trs[tid].last_time) > max_age) }
    IN  [tid \in keep |-> trs[tid]]

----------------------------------------------------------------------------
(* rules *)

\* the elements of a set of ids as a list, ascending (dict iteration order)
RECURSIVE InOrder(_)
InOrder(S) ==
    IF S = {} THEN <<>>
    ELSE LET m == MinOf(S) IN <<m>> \o InOrder(S \ {m})

\* mutant: the duration test is strict (dur <= LOITER_TIME_S is skipped)
LoiterFiresStrict(tr, t) ==
    /\ ~tr.alerted
    /\ tr.cls \in PERSON_LABELS
    /\ ~((t - tr.first_time) <= LOITER_TIME_S)
    /\ Within(center_of(tr.box), tr.first_center, LOITER_RADIUS_PX)

\* mutant: the displacement is tested against the wrong radius
LoiterFiresWrongRadius(tr, t) ==
    /\ ~tr.alerted
    /\ tr.cls \in PERSON_LABELS
    /\ ~((t - tr.first_time) < LOITER_TIME_S)
    /\ Within(center_of(tr.box), tr.first_center, NEAR_PERSON_DIST_PX)

LoiterFires(tr, t) ==
    /\ ~tr.alerted
    /\ tr.cls \in PERSON_LABELS
    /\ ~((t - tr.first_time) < LOITER_TIME_S)
    /\ Within(center_of(tr.box), tr.first_center, LOITER_RADIUS_PX)

LoiterAlert(tr, t) ==
    [type |-> "loitering", track_id |-> tr.id, since_s |-> t - tr.first_time,
     box |-> tr.box, conf |-> tr.conf]

\* mutant: the alert is emitted but the latch is not set
CheckLoiteringNoLatch(trs, t) ==
    LET hit == { tid \in DOMAIN trs : LoiterFires(trs[tid], t) }
        order == InOrder(hit)
    IN  [tracks |-> trs,
         alerts |-> [k \in 1..Len(order) |-> LoiterAlert(trs[order[k]], t)]]

CheckLoitering(trs, t) ==
    LET hit == { tid \in DOMAIN trs : LoiterFires(trs[tid], t) }
        order == InOrder(hit)
    IN  [tracks |-> [tid \in DOMAIN trs |->
                        IF tid \in hit THEN [trs[tid] EXCEPT !.alerted = TRUE]
                        ELSE trs[tid]],
         alerts |-> [k \in 1..Len(order) |-> LoiterAlert(trs[order[k]], t)]]

\* "people": centres of the person tracks seen less than 1.0 ago
\* mutant: every person track in the table counts as present
PeopleAnyAge(trs, t) ==
    { center_of(trs[tid].box) : tid \in
        { i \in DOMAIN trs : trs[i].cls \in PERSON_LABELS } }

People(trs, t) ==
    { center_of(trs[tid].box) : tid \in
        { i \in DOMAIN trs : /\ trs[i].cls \in PERSON_LABELS
                              /\ (t - trs[i].last_time) < PRESENT_AGE_S } }

Near(tr, people) ==
    \E pc \in people : Within(center_of(tr.box), pc, NEAR_PERSON_DIST_PX)

\* mutant: the nearby-person test is left out
AbandonFiresUnattendedOrNot(tr, people, t) ==
    /\ ~tr.alerted
    /\ tr.cls \in OBJECT_LABELS
    /\ (t - tr.first_time) >= ABANDON_TIME_S

AbandonFires(tr, people, t) ==
    /\ ~tr.alerted
    /\ tr.cls \in OBJECT_LABELS
    /\ ~Near(tr, people)
    /\ (t - tr.first_time) >= ABANDON_TIME_S

AbandonAlert(tr, t) ==
    [type |-> "abandoned_object", track_id |-> tr.id, since_s |-> t - tr.first_time,
     box |-> tr.box, conf |-> tr.conf, label |-> tr.cls]

\* one pass of the loop body over a track that does not fire
AbandonPass(tr, people, t) ==
    IF ~tr.alerted /\ tr.cls \in OBJECT_LABELS /\ Near(tr, people)
    THEN [tr EXCEPT !.first_time = IF tr.first_center = SENTINEL THEN t
                                   ELSE tr.first_time]
    ELSE tr

CheckAbandoned(trs, t) ==
    LET people == People(trs, t)
        hit == { tid \in DOMAIN trs : AbandonFires(trs[tid], people, t) }
        order == InOrder(hit)
    IN  [tracks |-> [tid \in DOMAIN trs |->
                        IF tid \in hit THEN [trs[tid] EXCEPT !.alerted = TRUE]
                        ELSE AbandonPass(trs[tid], people, t)],
         alerts |-> [k \in 1..Len(order) |-> AbandonAlert(trs[order[k]], t)]]

----------------------------------------------------------------------------
(* step *)

AlertIds(as) == { as[k].track_id : k \in 1..Len(as) }

\* the detection index each track consumes in _associate (the index that
\* MatchOne removes from unmatched), tracks taken in ascending id order
RECURSIVE Matching(_, _, _, _, _)
Matching(trs, todo, ds, unmatched, t) ==
    IF todo = {} THEN <<>>
    ELSE LET tid == MinOf(todo)
             m == MatchOne(trs[tid], ds, unmatched, t)
             rest == Matching(trs, todo \ {tid}, ds, m.unmatched, t)
             used == unmatched \ m.unmatched
         IN  IF used = {} THEN rest
             ELSE [i \in DOMAIN rest \cup {tid} |->
                      IF i = tid THEN MinOf(used) ELSE rest[i]]

StepResult(trs, nid, ds, t) ==
    LET a == Associate(trs, nid, ds, t)
    IN  LET l == CheckLoitering(PurgeStale(a.tracks, t), t)
        IN  LET b == CheckAbandoned(l.tracks, t)
            IN  [tracks |-> b.tracks, next_id |-> a.next_id,
                 alerts |-> l.alerts \o b.alerts, assoc |-> a.tracks]

\* the boxes the model feeds to iou: width * height within MaxArea
InRange(box) ==
    /\ (box[3] - box[1]) * (box[4] - box[2]) <= MaxArea
    /\ (box[3] - box[1]) * (box[4] - box[2]) >= -MaxArea

\* one call of step(ds, t); rec says whether the call is recorded
Call(ds, t, rec) ==
    \E r \in {StepResult(tracks, next_id, ds, t)} :
        /\ \A i \in 1..Len(ds) : InRange(ds[i][3])
        /\ r.next_id <= MaxId + 1
        /\ tracks' = r.tracks
        /\ next_id' = r.next_id
        /\ now' = t
        /\ alerts' = r.alerts
        /\ started' = TRUE
        /\ assigned' = assigned \cup (DOMAIN r.assoc \ DOMAIN tracks)
        /\ fired' = fired \cup AlertIds(r.alerts)
        /\ refired' = (\/ refired
                       \/ AlertIds(r.alerts) \cap fired # {}
                       \/ Cardinality(AlertIds(r.alerts)) < Len(r.alerts))
        /\ scenB' = (/\ scenB
                     /\ ds = <<pR>>
                     /\ t = IF started THEN now + 1 ELSE 0)
        /\ pre' = IF rec THEN tracks ELSE <<>>
        /\ dets' = IF rec THEN ds ELSE <<>>
        /\ assoc' = IF rec THEN r.assoc ELSE <<>>
        /\ matched' = IF rec THEN Matching(tracks, DOMAIN tracks, ds, 1..Len(ds), t)
                      ELSE <<>>
        /\ UNCHANGED <<max_age, geometry>>

Step(ds, t) == Call(ds, t, FALSE)

\* the state after AnomalyDetector() with MAX_TRACK_AGE_S = age
Construct(age) ==
    /\ tracks = <<>>
    /\ next_id = FIRST_ID
    /\ now = 0
    /\ alerts = <<>>
    /\ started = FALSE
    /\ assigned = {}
    /\ fired = {}
    /\ refired = FALSE
    /\ scenB = TRUE
    /\ max_age = age
    /\ pre = <<>>
    /\ dets = <<>>
    /\ assoc = <<>>
    /\ matched = <<>>

NoIou == argA = <<>> /\ argB = <<>> /\ result = <<>>

Init == Construct(MAX_TRACK_AGE_S) /\ NoIou

\* the first call is made at t = 0; later timestamps never decrease
Next ==
    \E ds \in DetLists : \E g \in Gaps :
        /\ now + g <= MaxTime
        /\ Step(ds, IF started THEN now + g ELSE 0)

Spec == Init /\ [][Next]_vars

\* one call per time-unit, one person at most
NextB ==
    \E ds \in DetListsB :
        /\ now + 1 <= MaxTimeB
        /\ Step(ds, IF started THEN now + 1 ELSE 0)

SpecB == Init /\ [][NextB]_vars

\* recorded calls: each call keeps the table it began with, its detections,
\* the table _associate returned and the matching, for the claims about
\* _associate; frames with two same-class tracks contesting a detection,
\* duplicates, ties, a box shared across classes and malformed boxes
StepA(ds, t) == Call(ds, t, TRUE)

NextA ==
    \E ds \in DetListsA : \E g \in GapsA :
        /\ now + g <= MaxTimeA
        /\ StepA(ds, IF started THEN now + g ELSE 0)

SpecA == Init /\ [][NextA]_vars

----------------------------------------------------------------------------
(* Properties *)

Age(tr) == now - tr.last_time

\* C1: over any sequence of step calls no track id appears in more than one
\* alert (loitering and abandoned_object together), and a track that has
\* fired keeps alerted = TRUE for as long as it is in the table.
C1_OneAlertPerTrack ==
    /\ ~refired
    /\ \A tid \in fired \cap DOMAIN tracks : tracks[tid].alerted

\* a track alerted earlier is still in the table after a later call that
\* returned nothing for it
C1_Witness ==
    \E tid \in fired \cap DOMAIN tracks :
        tracks[tid].alerted /\ tid \notin AlertIds(alerts)

\* C2: every track created by a call gets an id strictly greater than every
\* id handed out before the call, purged tracks included.
C2_FreshIds ==
    [][\A tid \in DOMAIN tracks' \ DOMAIN tracks :
          /\ tid \notin assigned
          /\ \A old \in assigned : tid > old]_vars

\* a track is in the table whose id is above that of a purged track
C2_Witness ==
    \E tid \in DOMAIN tracks : \E old \in assigned \ DOMAIN tracks : old < tid

\* C3: after any step call every track has last_time >= first_time.
C3_LastNotBeforeFirst ==
    \A tid \in DOMAIN tracks : tracks[tid].last_time >= tracks[tid].first_time

\* C4: a track that is stale when a call begins (now_s - last_time > 5.0) is
\* never updated by a detection of that call.
C4_NoUpdateAcrossGap ==
    [][\A tid \in DOMAIN tracks :
          (now' - tracks[tid].last_time) > MAX_TRACK_AGE_S
              => ~(tid \in DOMAIN tracks' /\ tracks'[tid].last_time = now')]_vars

\* C5: after every step call each track has now_s - last_time <= 5.0 and each
\* returned alert carries the id of a track still in the table; a track whose
\* age at the call is at most 5.0 is kept.
C5_PurgeBeforeRules ==
    /\ [](/\ \A tid \in DOMAIN tracks : Age(tracks[tid]) <= MAX_TRACK_AGE_S
          /\ AlertIds(alerts) \subseteq DOMAIN tracks)
    /\ [][\A tid \in DOMAIN tracks :
             (now' - tracks[tid].last_time) <= MAX_TRACK_AGE_S
                 => tid \in DOMAIN tracks']_vars

\* a track aged exactly 5.0 is in the table while an older one has been purged
C5_Witness ==
    /\ \E tid \in DOMAIN tracks : Age(tracks[tid]) = MAX_TRACK_AGE_S
    /\ assigned \ DOMAIN tracks # {}

\* the alerts of one type in a returned list
OfType(as, type) == { as[k] : k \in { i \in 1..Len(as) : as[i].type = type } }

LoiterIds(as) == { a.track_id : a \in OfType(as, "loitering") }
AbandonIds(as) == { a.track_id : a \in OfType(as, "abandoned_object") }

ScenarioBAlert(since) ==
    [type |-> "loitering", track_id |-> 1, since_s |-> since,
     box |-> BoxR, conf |-> 50]

\* C6 as stated: in Scenario B the call at t = 31 returns exactly one alert,
\* loitering, track_id 1, since 31.
C6_ScenarioB_AlertAt31 ==
    (scenB /\ started /\ now = 31) => alerts = <<ScenarioBAlert(31)>>

\* C6 amended: in Scenario B the call at t = 30 returns exactly one alert,
\* loitering, track_id 1, since 30; every other call, before or after
\* (t = 31 included), returns no alert.
C6_ScenarioB ==
    (scenB /\ started) =>
        /\ now = LOITER_TIME_S => alerts = <<ScenarioBAlert(LOITER_TIME_S)>>
        /\ now # LOITER_TIME_S => alerts = <<>>
        /\ DOMAIN tracks = {1}

\* Scenario B has run past the alert: the call at t = 31 has returned
C6_Witness ==
    scenB /\ started /\ now = 31 /\ fired = {1} /\ alerts = <<>>

\* was the track alerted when the call began
AlertedBefore(tid) == tid \in DOMAIN tracks /\ tracks[tid].alerted

\* C7: a call returns a loitering alert for track T exactly when T is in the
\* table after the purge, is a person, was not alerted before the call,
\* now_s - first_time >= 30.0 and the distance from its current centre to its
\* first_center is <= 40; the alert then carries T's duration, box and conf.
C7_LoiteringIff ==
    [][/\ LoiterIds(alerts') \subseteq DOMAIN tracks'
       /\ \A tid \in DOMAIN tracks' :
             LET tr == tracks'[tid]
             IN  /\ tid \in LoiterIds(alerts') <=>
                       /\ tr.cls \in PERSON_LABELS
                       /\ ~AlertedBefore(tid)
                       /\ now' - tr.first_time >= LOITER_TIME_S
                       /\ euclid2(center_of(tr.box), tr.first_center)
                            <= 4 * LOITER_RADIUS_PX * LOITER_RADIUS_PX
                 /\ tid \in LoiterIds(alerts') =>
                       /\ tr.alerted
                       /\ Cardinality({ a \in OfType(alerts', "loitering") :
                                          a.track_id = tid }) = 1]_vars

\* a person fires later than 30.0 after its creation, standing on its
\* first_center: the alert was not due, or the person was away, at 30.0
C7_Witness ==
    \E tid \in LoiterIds(alerts) :
        /\ now - tracks[tid].first_time > LOITER_TIME_S
        /\ tracks[tid].first_center = center_of(tracks[tid].box)

\* is a present person (seen less than 1.0 ago) within 80 px of the track
Attended(trs, tid, t) ==
    \E p \in DOMAIN trs :
        /\ trs[p].cls \in PERSON_LABELS
        /\ t - trs[p].last_time < PRESENT_AGE_S
        /\ euclid2(center_of(trs[tid].box), center_of(trs[p].box))
             <= 4 * NEAR_PERSON_DIST_PX * NEAR_PERSON_DIST_PX

\* C8: an object track that is in the table, not attended and not alerted
\* before fires abandoned_object exactly when now_s - first_time >= 20.0,
\* with its own id and class as track_id and label; an attended object fires
\* nothing; a track of another class never fires abandoned_object.
C8_Abandonment ==
    [][/\ AbandonIds(alerts') \subseteq DOMAIN tracks'
       /\ \A tid \in DOMAIN tracks' :
             LET tr == tracks'[tid]
             IN  /\ tid \in AbandonIds(alerts') <=>
                       /\ tr.cls \in OBJECT_LABELS
                       /\ ~AlertedBefore(tid)
                       /\ ~Attended(tracks', tid, now')
                       /\ now' - tr.first_time >= ABANDON_TIME_S
                 /\ \A a \in OfType(alerts', "abandoned_object") :
                       a.track_id = tid => a.label = tr.cls
                 /\ Cardinality({ a \in OfType(alerts', "abandoned_object") :
                                    a.track_id = tid }) <= 1]_vars

\* an object has fired in a call in which a person was present, but far away
C8_Witness ==
    \E tid \in AbandonIds(alerts) :
        /\ tracks[tid].cls = "handbag"
        /\ \E p \in DOMAIN tracks :
              tracks[p].cls \in PERSON_LABELS /\ Age(tracks[p]) = 0

\* C9: first_center of a track never changes after the call that created it.
C9_FirstCenterFixed ==
    [][\A tid \in DOMAIN tracks \cap DOMAIN tracks' :
          tracks'[tid].first_center = tracks[tid].first_center]_vars

\* C10: first_time of an object track never changes after the call that
\* created it, whether or not a person is near.
C10_TimerNotRestarted ==
    [][\A tid \in DOMAIN tracks \cap DOMAIN tracks' :
          tracks[tid].cls \in OBJECT_LABELS
              => tracks'[tid].first_time = tracks[tid].first_time]_vars

\* engines constructed with MAX_TRACK_AGE_S overridden: the class attribute
\* is set before AnomalyDetector() runs; the default and a negative value
CfgAges == {MAX_TRACK_AGE_S, -MAX_TRACK_AGE_S}

InitC == \E age \in CfgAges : Construct(age) /\ NoIou

NextC ==
    \E ds \in DetListsB : \E g \in Gaps :
        /\ now + g <= MaxTime
        /\ Step(ds, IF started THEN now + g ELSE 0)

SpecC == InitC /\ [][NextC]_vars

\* one evaluation of iou on two boxes with whole-pixel coordinates, well
\* formed or not
IouBoxes == (0..MaxCoord) \X (0..MaxCoord) \X (0..MaxCoord) \X (0..MaxCoord)

InitI ==
    /\ Construct(MAX_TRACK_AGE_S)
    /\ argA \in IouBoxes
    /\ argB \in IouBoxes
    /\ result = <<>>

CallIou ==
    /\ result = <<>>
    /\ InRange(argA)
    /\ InRange(argB)
    /\ result' = iou(argA, argB)
    /\ UNCHANGED <<engine, max_age, recorded, argA, argB>>

NextI == CallIou

SpecI == InitI /\ [][NextI]_vars

----------------------------------------------------------------------------
(* The recorded call (SpecA): pre, dets, assoc, matched *)

Idx == 1..Len(dets)
Updated == DOMAIN matched
Consumed == { matched[tid] : tid \in Updated }
Unmatched == Idx \ Consumed
Created == DOMAIN assoc \ DOMAIN pre

\* the detection (label, conf, box) a track holds
DetOf(tr) == <<tr.cls, tr.conf, tr.box>>

\* the id handed to unmatched detection j: next_id at the start of the call
\* plus the number of unmatched detections before j
IdOf(j) ==
    (next_id - Cardinality(Unmatched)) + Cardinality({ i \in Unmatched : i < j })

\* some track of the table the call began with has the class of detection j
\* and IoU >= MATCH_IOU_THR with it
HasCandidate(j) ==
    \E tid \in DOMAIN pre :
        /\ pre[tid].cls = dets[j][1]
        /\ ScoreAtLeastThr(iou(pre[tid].box, dets[j][3]))

\* C11: association never crosses classes: a track is updated only by a
\* detection of its own class, a track keeps the class of the detection that
\* created it through association and through the rest of the call, and a
\* detection with no same-class track at or above the threshold creates a
\* new track of its own class, also when a track of another class holds
\* exactly its box.
C11_NoCrossClass ==
    /\ \A tid \in Updated :
            /\ tid \in DOMAIN pre
            /\ dets[matched[tid]][1] = pre[tid].cls
            /\ DetOf(assoc[tid]) = dets[matched[tid]]
    /\ \A tid \in DOMAIN pre :
            tid \in DOMAIN assoc /\ assoc[tid].cls = pre[tid].cls
    /\ started => \A tid \in DOMAIN tracks :
            tid \in DOMAIN assoc /\ tracks[tid].cls = assoc[tid].cls
    /\ \A j \in Idx :
            ~HasCandidate(j) =>
                /\ j \in Unmatched
                /\ IdOf(j) \in Created
                /\ assoc[IdOf(j)].cls = dets[j][1]

\* a handbag detection on exactly the box of a person track: the person
\* track is not updated and a handbag track is created on the same box
C11_Witness ==
    \E tp \in DOMAIN pre : \E j \in Unmatched :
        /\ pre[tp].cls = "person"
        /\ dets[j][1] = "handbag"
        /\ dets[j][3] = pre[tp].box
        /\ tp \notin Updated
        /\ assoc[tp] = pre[tp]
        /\ IdOf(j) \in Created
        /\ assoc[IdOf(j)].cls = "handbag"
        /\ assoc[IdOf(j)].box = pre[tp].box

\* C13: every unmatched detection creates exactly one new track: its id is
\* the next value of the counter, class, box and confidence are the
\* detection's, first_time = last_time = now, first_center is the centre of
\* the box and alerted is false.  Scenario A: the call
\* step([("person", 0.9, (0, 0, 10, 10))], 0) on a fresh engine returns no
\* alert and leaves exactly track 1, with first_center (5, 5), which is
\* <<10, 10>> in half-pixels.
C13_UnmatchedCreates ==
    /\ Cardinality(Created) = Cardinality(Unmatched)
    /\ Created = (next_id - Cardinality(Unmatched))..(next_id - 1)
    /\ \A j \in Unmatched :
           /\ IdOf(j) \in Created
           /\ assoc[IdOf(j)] =
                  [id |-> IdOf(j), cls |-> dets[j][1], box |-> dets[j][3],
                   conf |-> dets[j][2], first_time |-> now, last_time |-> now,
                   first_center |-> center_of(dets[j][3]), alerted |-> FALSE]
    /\ (dets = <<pS>> /\ now = 0 /\ pre = <<>> /\ next_id = FIRST_ID + 1) =>
           /\ alerts = <<>>
           /\ DOMAIN tracks = {1}
           /\ tracks[1] =
                  [id |-> 1, cls |-> "person", box |-> <<0, 0, 10, 10>>,
                   conf |-> 90, first_time |-> 0, last_time |-> 0,
                   first_center |-> <<10, 10>>, alerted |-> FALSE]

\* Scenario A has run: the first track of the engine comes from the call
\* step([("person", 0.9, (0, 0, 10, 10))], 0)
C13_Witness ==
    /\ dets = <<pS>>
    /\ now = 0
    /\ pre = <<>>
    /\ Unmatched = {1}
    /\ Created = {1}
    /\ 1 \in DOMAIN tracks
    /\ tracks[1].first_center = <<10, 10>>

\* C14: an engine constructed with an out-of-range configuration value (here
\* a negative staleness age) fails at construction, so no step ever runs on
\* such an engine.
C14_InvalidConfigRejected == max_age < 0 => ~started

\* C16: association is one-to-one.  No detection index is consumed by two
\* tracks, a track of the table the call began with is updated by at most
\* one detection (and is left as it was by association when it is not),
\* every detection either updates exactly one such track or creates exactly
\* one new track, and the table after association has the size it had
\* before plus the number of unmatched detections.
C16_OneToOne ==
    /\ Updated \subseteq DOMAIN pre
    /\ Consumed \subseteq Idx
    /\ \A t1 \in Updated : \A t2 \in Updated :
           matched[t1] = matched[t2] => t1 = t2
    /\ \A tid \in DOMAIN pre :
           /\ tid \in DOMAIN assoc
           /\ IF tid \in Updated
              THEN /\ DetOf(assoc[tid]) = dets[matched[tid]]
                   /\ assoc[tid].last_time = now
              ELSE assoc[tid] = pre[tid]
    /\ \A j \in Idx :
           LET updates == { tid \in Updated : matched[tid] = j }
               creates == { tid \in Created :
                               j \in Unmatched /\ tid = IdOf(j)
                               /\ DetOf(assoc[tid]) = dets[j] }
           IN  Cardinality(updates) + Cardinality(creates) = 1
    /\ Cardinality(Created) = Cardinality(Unmatched)
    /\ Cardinality(DOMAIN assoc) =
           Cardinality(DOMAIN pre) + Cardinality(Unmatched)

\* a frame holding the same detection twice met a track it matches: one
\* copy updated the track, the other created a new track
C16_Witness ==
    \E tid \in Updated : \E j \in Unmatched :
        /\ dets[j] = dets[matched[tid]]
        /\ IdOf(j) \in Created
        /\ Cardinality(DOMAIN assoc) = Cardinality(DOMAIN pre) + 1

\* the detections still unmatched when track tid is processed: all but
\* those consumed by tracks of smaller id
Avail(tid) == Idx \ { matched[u] : u \in { v \in Updated : v < tid } }

\* IoU of detection j with the box track tid held when the call began
ScoreOf(tid, j) == iou(pre[tid].box, dets[j][3])

\* detection j has the class of track tid and IoU >= MATCH_IOU_THR with it
Eligible(tid, j) ==
    dets[j][1] = pre[tid].cls /\ ScoreAtLeastThr(ScoreOf(tid, j))

\* j is the detection track tid selects among S: eligible, of maximum IoU,
\* and the first such index
Selects(tid, j, S) ==
    /\ j \in S
    /\ Eligible(tid, j)
    /\ \A k \in S : Eligible(tid, k) =>
           /\ ~ScoreGreater(ScoreOf(tid, k), ScoreOf(tid, j))
           /\ k < j => ScoreGreater(ScoreOf(tid, j), ScoreOf(tid, k))

\* C17: association is greedy and first-come in ascending id order.  When
\* the detection an earlier track selects is also eligible for a later
\* track of the same class, the earlier track is updated with it, also when
\* the later track has the higher IoU with it; the later track is matched
\* only against what remains: it is updated with another, still unmatched
\* eligible detection, or with none when no eligible detection remains.
C17_GreedyFirstCome ==
    \A t1 \in DOMAIN pre : \A t2 \in DOMAIN pre : \A j \in Idx :
        (t1 < t2 /\ Selects(t1, j, Avail(t1)) /\ Eligible(t2, j)) =>
            /\ t1 \in Updated
            /\ matched[t1] = j
            /\ DetOf(assoc[t1]) = dets[j]
            /\ assoc[t1].last_time = now
            /\ j \notin Avail(t2)
            /\ IF \E k \in Avail(t2) : Eligible(t2, k)
               THEN /\ t2 \in Updated
                    /\ matched[t2] # j
                    /\ matched[t2] \in Avail(t2)
                    /\ Eligible(t2, matched[t2])
                    /\ DetOf(assoc[t2]) = dets[matched[t2]]
               ELSE /\ t2 \notin Updated
                    /\ assoc[t2] = pre[t2]

\* a detection eligible for two tracks, with the higher IoU for the later
\* one, went to the earlier one, and the later track got no update
C17_Witness ==
    \E t1 \in Updated : \E t2 \in DOMAIN pre :
        /\ t1 < t2
        /\ Eligible(t2, matched[t1])
        /\ ScoreGreater(ScoreOf(t2, matched[t1]), ScoreOf(t1, matched[t1]))
        /\ t2 \notin Updated
        /\ assoc[t2] = pre[t2]
        /\ now > pre[t2].last_time

\* the later track fell back on its next-best detection
C17_Fallback ==
    \E t1 \in Updated : \E t2 \in Updated :
        /\ t1 < t2
        /\ Eligible(t2, matched[t1])
        /\ matched[t2] # matched[t1]

\* C18: a track of the table the call began with is updated by association
\* if and only if, when it is processed, some still unmatched detection of
\* its class has IoU >= MATCH_IOU_THR with its box; it is then updated with
\* the detection of maximum IoU among those (box, confidence, last_time =
\* now; id, class, first_time and alerted stay).  Otherwise association
\* leaves the track as it was: box, confidence, last_time, first_time,
\* first_center and alerted.
C18_UpdatedIffEligible ==
    \A tid \in DOMAIN pre :
        /\ tid \in DOMAIN assoc
        /\ IF \E j \in Avail(tid) : Eligible(tid, j)
           THEN /\ tid \in Updated
                /\ Selects(tid, matched[tid], Avail(tid))
                /\ assoc[tid].box = dets[matched[tid]][3]
                /\ assoc[tid].conf = dets[matched[tid]][2]
                /\ assoc[tid].last_time = now
                /\ assoc[tid].id = pre[tid].id
                /\ assoc[tid].cls = pre[tid].cls
                /\ assoc[tid].first_time = pre[tid].first_time
                /\ assoc[tid].alerted = pre[tid].alerted
           ELSE /\ tid \notin Updated
                /\ assoc[tid].box = pre[tid].box
                /\ assoc[tid].conf = pre[tid].conf
                /\ assoc[tid].last_time = pre[tid].last_time
                /\ assoc[tid].first_time = pre[tid].first_time
                /\ assoc[tid].first_center = pre[tid].first_center
                /\ assoc[tid].alerted = pre[tid].alerted

\* a track took the detection of maximum IoU although an eligible one came
\* before it in the list
C18_Witness ==
    \E tid \in Updated : \E k \in Avail(tid) :
        /\ k < matched[tid]
        /\ Eligible(tid, k)
        /\ ScoreGreater(ScoreOf(tid, matched[tid]), ScoreOf(tid, k))
        /\ assoc[tid].box = dets[matched[tid]][3]
        /\ assoc[tid].conf = dets[matched[tid]][2]
        /\ assoc[tid].last_time > pre[tid].last_time

\* a track overlapped below the threshold by a detection of its class was
\* left as it was
C18_BelowThreshold ==
    \E tid \in DOMAIN pre \ Updated : \E k \in Avail(tid) :
        /\ dets[k][1] = pre[tid].cls
        /\ ScoreGreater(ScoreOf(tid, k), [inter |-> 0, uni |-> 0])
        /\ ~Eligible(tid, k)
        /\ assoc[tid] = pre[tid]

Malformed(box) == box[1] >= box[3] \/ box[2] >= box[4]

\* C20: a malformed detection (x1 >= x2 or y1 >= y2) has IoU 0 with every
\* box, so it updates no track and creates a new track holding its box; a
\* track holding a malformed box has IoU 0 with every detection, so it is
\* never updated again, and it is in the table after the call exactly when
\* now - last_time <= MAX_TRACK_AGE_S.  The call returns normally: the
\* recorded call is a completed call.
C20_MalformedBox ==
    /\ \A j \in Idx : Malformed(dets[j][3]) =>
           /\ \A tid \in DOMAIN pre :
                  /\ iou(pre[tid].box, dets[j][3]) = [inter |-> 0, uni |-> 0]
                  /\ iou(dets[j][3], pre[tid].box) = [inter |-> 0, uni |-> 0]
           /\ j \in Unmatched
           /\ IdOf(j) \in Created
           /\ DetOf(assoc[IdOf(j)]) = dets[j]
    /\ \A tid \in DOMAIN pre : Malformed(pre[tid].box) =>
           /\ \A j \in Idx :
                  iou(pre[tid].box, dets[j][3]) = [inter |-> 0, uni |-> 0]
           /\ tid \notin Updated
           /\ assoc[tid] = pre[tid]
           /\ tid \in DOMAIN tracks <=>
                  now - pre[tid].last_time <= MAX_TRACK_AGE_S

\* a track holding a malformed box met a detection of its class with the
\* same box: the track was not updated and the detection created a track
C20_Witness ==
    \E tid \in DOMAIN pre : \E j \in Unmatched :
        /\ Malformed(pre[tid].box)
        /\ dets[j][1] = pre[tid].cls
        /\ dets[j][3] = pre[tid].box
        /\ tid \notin Updated
        /\ IdOf(j) \in Created
        /\ IdOf(j) # tid

\* a track holding a malformed box was removed by the call
C20_Removed ==
    \E tid \in DOMAIN pre :
        /\ Malformed(pre[tid].box)
        /\ now - pre[tid].last_time > MAX_TRACK_AGE_S
        /\ tid \notin DOMAIN tracks

----------------------------------------------------------------------------
(* iou as a function (SpecI) *)

WellFormed(box) == box[1] < box[3] /\ box[2] < box[4]
Area(box) == (box[3] - box[1]) * (box[4] - box[2])

\* C15 as claimed: for every non-degenerate box b, iou(b, b) is exactly 1.0.
C15_SelfIouIsOne ==
    (result # <<>> /\ argA = argB /\ WellFormed(argA)) => ScoreIsOne(result)

\* C15, amended: for every non-degenerate box b with whole-pixel coordinates
\* and area below 2^34, iou(b, b) is area / (area + 1e-6): the intersection
\* and the union are both the area of b, the value is strictly below 1.0,
\* and it is at or above MATCH_IOU_THR.
C15_SelfIouBelowOne ==
    (/\ result # <<>>
     /\ argA = argB
     /\ WellFormed(argA)
     /\ Area(argA) \div ABSORB_ROOT < ABSORB_ROOT) =>
        /\ result.inter = Area(argA)
        /\ result.uni = Area(argA)
        /\ ScoreBelowOne(result)
        /\ ~ScoreIsOne(result)
        /\ ScoreAtLeastThr(result)

\* iou has been evaluated on a non-degenerate box and itself
C15_Witness ==
    /\ result # <<>>
    /\ argA = argB
    /\ WellFormed(argA)
    /\ Area(argA) > 1

----------------------------------------------------------------------------
(* Presence of people (Spec) *)

\* a person track of table trs within NEAR_PERSON_DIST_PX of track tid that
\* was last seen PRESENT_AGE_S or more before t
StalePersonNear(trs, tid, t) ==
    \E p \in DOMAIN trs :
        /\ trs[p].cls \in PERSON_LABELS
        /\ t - trs[p].last_time >= PRESENT_AGE_S
        /\ Within(center_of(trs[tid].box), center_of(trs[p].box),
                  NEAR_PERSON_DIST_PX)

\* C19: only person tracks with now - last_time < 1.0 count as present.  A
\* person track still in the table but last seen 1.0 or more ago does not
\* keep an object attended: an object track not alerted before the call,
\* with such a person within 80 px, no present person within 80 px and
\* duration >= 20.0, fires abandoned_object in that call.
C19_StalePersonNotPresent ==
    [][\A tid \in DOMAIN tracks' :
          (/\ tracks'[tid].cls \in OBJECT_LABELS
           /\ ~AlertedBefore(tid)
           /\ now' - tracks'[tid].first_time >= ABANDON_TIME_S
           /\ StalePersonNear(tracks', tid, now')
           /\ ~Attended(tracks', tid, now')) =>
              /\ tid \in AbandonIds(alerts')
              /\ tracks'[tid].alerted]_vars

\* an object has fired abandoned_object in a call in which a person track
\* last seen 1.0 or more ago was within 80 px of it
C19_Witness ==
    \E tid \in AbandonIds(alerts) :
        /\ tid \in DOMAIN tracks
        /\ StalePersonNear(tracks, tid, now)
        /\ now - tracks[tid].first_time >= ABANDON_TIME_S

====
